---- MODULE Spec2Model ----
(***************************************************************************)
(* Model of make/patch_meta.py: the fake-version resolver                  *)
(* (load_exclude_packages_and_versions) and the metadata interceptor       *)
(* (patch_importlib_metadata, patched_version, patched_distribution,       *)
(* create_fake_distribution).                                              *)
(*                                                                         *)
(* A Python str is a sequence of one-character strings, so that strip,     *)
(* lower, replace, startswith and split are computed character by          *)
(* character.  A dict is a sequence of [k, v] records in insertion order   *)
(* (Python dicts iterate in insertion order).  A set of str has no         *)
(* defined iteration order: the iteration order is an input of the         *)
(* resolver, drawn from all permutations of the set.                       *)
(***************************************************************************)
EXTENDS Integers, Sequences, FiniteSets, TLC

(***************************************************************************)
(* Bounds                                                                  *)
(***************************************************************************)
\* longest excludes / requirements file the resolver specification reads
MaxLines == 2
\* number of patch_importlib_metadata calls the host makes
MaxInstalls == 2

(***************************************************************************)
(* str                                                                     *)
(***************************************************************************)
Whitespace == {" ", "\t", "\n"}

\* the upper-case letters of the alphabet in use, with their lower-case forms
UpperToLower ==
    [c \in {"A", "B", "F", "I", "K", "L", "O", "P", "S"} |->
        CASE c = "A" -> "a" [] c = "B" -> "b" [] c = "F" -> "f"
          [] c = "I" -> "i" [] c = "K" -> "k" [] c = "L" -> "l"
          [] c = "O" -> "o" [] c = "P" -> "p" [] c = "S" -> "s"]

\* str.lower()
lower(s) ==
    [i \in 1..Len(s) |-> IF s[i] \in DOMAIN UpperToLower THEN UpperToLower[s[i]] ELSE s[i]]

\* str.replace(old, new) for one-character old and new
replace(s, old, new) ==
    [i \in 1..Len(s) |-> IF s[i] = old THEN new ELSE s[i]]

RECURSIVE lstrip(_)
lstrip(s) ==
    IF s # <<>> /\ Head(s) \in Whitespace THEN lstrip(Tail(s)) ELSE s

RECURSIVE rstrip(_)
rstrip(s) ==
    IF s # <<>> /\ s[Len(s)] \in Whitespace THEN rstrip(SubSeq(s, 1, Len(s) - 1)) ELSE s

\* str.strip()
strip(s) == rstrip(lstrip(s))

\* str.startswith(prefix)
startswith(s, prefix) ==
    Len(s) >= Len(prefix) /\ SubSeq(s, 1, Len(prefix)) = prefix

\* str.find(sub): index (from 1) of the first occurrence of sub in s, 0 when absent
find(s, sub) ==
    LET hits == {i \in 1..(Len(s) - Len(sub) + 1) : SubSeq(s, i, i + Len(sub) - 1) = sub}
    IN  IF hits = {} THEN 0 ELSE CHOOSE i \in hits : \A j \in hits : i <= j

\* sub in s
contains(s, sub) == find(s, sub) # 0

\* s.split(sep, 1) for a separator that occurs in s: the pair around its first occurrence
split1(s, sep) ==
    LET i == find(s, sep)
    IN  <<SubSeq(s, 1, i - 1), SubSeq(s, i + Len(sep), Len(s))>>

\* normalize with the lower() left out
normalize_no_lower(name) == replace(name, "-", "_")

\* dist_name.lower().replace('-', '_')
normalize(name) == replace(lower(name), "-", "_")

(***************************************************************************)
(* dict (insertion ordered) and None                                       *)
(***************************************************************************)
\* None: a value no str equals (every element of a str is one character)
None == <<"None">>

\* Python truthiness of a str-or-None: None and '' are falsy
Falsy(v) == v = None \/ v = <<>>

Keys(d) == {d[i].k : i \in 1..Len(d)}

\* k in d
DictHas(d, k) == k \in Keys(d)

\* d.get(k, default)
DictGet(d, k, default) ==
    IF DictHas(d, k)
    THEN LET i == CHOOSE j \in 1..Len(d) : d[j].k = k IN d[i].v
    ELSE default

\* d[k] = v: an existing key keeps its position, a new key goes last
DictSet(d, k, v) ==
    IF DictHas(d, k)
    THEN [i \in 1..Len(d) |-> IF d[i].k = k THEN [k |-> k, v |-> v] ELSE d[i]]
    ELSE Append(d, [k |-> k, v |-> v])

(***************************************************************************)
(* Names and versions that the code or the inputs mention                  *)
(***************************************************************************)
PIL == <<"P", "I", "L">>
pillow == <<"p", "i", "l", "l", "o", "w">>
sklearn == <<"s", "k", "l", "e", "a", "r", "n">>
scikit_learn == <<"s", "c", "i", "k", "i", "t", "-", "l", "e", "a", "r", "n">>
default_version == <<"1", ".", "0", ".", "0">>

(***************************************************************************)
(* Files.  open() of a missing path raises FileNotFoundError; open() of a  *)
(* path the process may not read raises PermissionError, which is not a    *)
(* FileNotFoundError.                                                      *)
(***************************************************************************)
ReadableFile(ls) == [state |-> "ok", lines |-> ls]
MissingFile == [state |-> "missing", lines |-> <<>>]
DeniedFile == [state |-> "denied", lines |-> <<>>]

\* the exception open(file) raises, "" when it succeeds
open_error(file) ==
    CASE file.state = "missing" -> "FileNotFoundError"
      [] file.state = "denied" -> "PermissionError"
      [] OTHER -> ""

(***************************************************************************)
(* load_exclude_packages_and_versions                                      *)
(***************************************************************************)
\* lines 16-19: the set of stripped, non-blank, non-comment lines
excluded_packages(lines) ==
    {strip(lines[i]) : i \in {j \in 1..Len(lines) :
        strip(lines[j]) # <<>> /\ ~startswith(strip(lines[j]), <<"#">>)}}

\* lines 29-33: later lines overwrite earlier ones of the same package
RECURSIVE package_versions(_)
package_versions(lines) ==
    IF lines = <<>> THEN <<>>
    ELSE LET before == package_versions(SubSeq(lines, 1, Len(lines) - 1))
             line == strip(lines[Len(lines)])
         IN  IF line # <<>> /\ ~startswith(line, <<"#">>) /\ contains(line, <<"=", "=">>)
             THEN LET parts == split1(line, <<"=", "=">>)
                  IN  DictSet(before, strip(parts[1]), strip(parts[2]))
             ELSE before

\* lines 43-51: the version the loop stores for one excluded package
resolve_version(versions, package) ==
    LET version == DictGet(versions, package, None)
    IN  IF Falsy(version)
        THEN IF package = PIL THEN DictGet(versions, pillow, default_version)
             ELSE IF package = sklearn THEN DictGet(versions, scikit_learn, default_version)
             ELSE default_version
        ELSE version

\* lines 41-53: the loop over the set, in the order the set is iterated
RECURSIVE fake_versions_loop(_, _)
fake_versions_loop(versions, order) ==
    IF order = <<>> THEN <<>>
    ELSE LET package == order[Len(order)]
         IN  DictSet(fake_versions_loop(versions, SubSeq(order, 1, Len(order) - 1)),
                     package, resolve_version(versions, package))

\* special_mappings that only refreshes import names the loop has stored
special_mappings_if_excluded(fake_versions, versions) ==
    LET with_pil == IF DictHas(versions, pillow) /\ DictHas(fake_versions, PIL)
                    THEN DictSet(fake_versions, PIL, DictGet(versions, pillow, None))
                    ELSE fake_versions
    IN  IF DictHas(versions, scikit_learn) /\ DictHas(with_pil, sklearn)
        THEN DictSet(with_pil, sklearn, DictGet(versions, scikit_learn, None))
        ELSE with_pil

\* lines 55-59: the special mappings for import name vs package name
special_mappings(fake_versions, versions) ==
    LET with_pil == IF DictHas(versions, pillow)
                    THEN DictSet(fake_versions, PIL, DictGet(versions, pillow, None))
                    ELSE fake_versions
    IN  IF DictHas(versions, scikit_learn)
        THEN DictSet(with_pil, sklearn, DictGet(versions, scikit_learn, None))
        ELSE with_pil

\* the exceptions the two try blocks catch (lines 20 and 34)
LoadCaught == {"FileNotFoundError"}

\* the lines a try block leaves read: none when open() raised
lines_read(file) == IF open_error(file) = "" THEN file.lines ELSE <<>>

\* the iteration orders of a set: the sequences that list each element once
Orders(S) ==
    {o \in [1..Cardinality(S) -> S] : \A e \in S : \E i \in 1..Cardinality(S) : o[i] = e}

\* the warning a try block prints when it catches (lines 21 and 35)
load_warning(file, which) ==
    IF open_error(file) \in LoadCaught THEN <<which>> ELSE <<>>

\* the whole function; order is the iteration order of excluded_packages
load_exclude_packages_and_versions(excludes_file, requirements_file, order) ==
    IF open_error(excludes_file) \notin ({""} \cup LoadCaught)
    THEN [kind |-> "raise", exc |-> open_error(excludes_file), val |-> <<>>,
          warnings |-> <<>>]
    ELSE IF open_error(requirements_file) \notin ({""} \cup LoadCaught)
    THEN [kind |-> "raise", exc |-> open_error(requirements_file), val |-> <<>>,
          warnings |-> load_warning(excludes_file, "excludes")]
    ELSE LET versions == package_versions(lines_read(requirements_file))
         IN  [kind |-> "return", exc |-> "",
              val |-> special_mappings(fake_versions_loop(versions, order), versions),
              warnings |-> load_warning(excludes_file, "excludes")
                           \o load_warning(requirements_file, "requirements")]

\* the iteration orders the set built from a file can have
LoadOrders(excludes_file) == Orders(excluded_packages(lines_read(excludes_file)))

(***************************************************************************)
(* State                                                                   *)
(***************************************************************************)
VARIABLES
    metadata_importable,    \* whether "import importlib.metadata" succeeds
    registry,               \* the distributions the real registry knows: name -> version
    metadata_version,       \* the function bound to metadata.version
    metadata_distribution,  \* the function bound to metadata.distribution
    closures,               \* the closures patch_importlib_metadata has created
    installs,               \* number of patch_importlib_metadata calls so far
    ret,                    \* the last patch_importlib_metadata call: arguments and outcome
    result,                 \* the last lookup through metadata.version / .distribution
    load_in,                \* arguments of a direct load_exclude_packages_and_versions call
    load_out                \* its outcome, with the set iteration order it ran under

vars == <<metadata_importable, registry, metadata_version, metadata_distribution,
          closures, installs, ret, result, load_in, load_out>>

\* A function value is 0 for the function importlib.metadata defines, and i > 0
\* for the wrapper (patched_version or patched_distribution) of closures[i].
RealFunction == 0

NoCall == [kind |-> "none"]

(***************************************************************************)
(* The real registry (importlib.metadata)                                  *)
(***************************************************************************)
PackageNotFoundError(name) == <<"PackageNotFoundError", name>>

\* importlib.metadata.version
registry_version(dist_name) ==
    IF DictHas(registry, dist_name)
    THEN [kind |-> "return", val |-> DictGet(registry, dist_name, None), exc |-> <<>>,
          calls |-> <<>>]
    ELSE [kind |-> "raise", val |-> <<>>, exc |-> PackageNotFoundError(dist_name),
          calls |-> <<>>]

\* importlib.metadata.distribution
registry_distribution(dist_name) ==
    IF DictHas(registry, dist_name)
    THEN [kind |-> "return",
          val |-> [class |-> "Distribution", name |-> dist_name,
                   version |-> DictGet(registry, dist_name, None)],
          exc |-> <<>>, calls |-> <<>>]
    ELSE [kind |-> "raise", val |-> <<>>, exc |-> PackageNotFoundError(dist_name),
          calls |-> <<>>]

(***************************************************************************)
(* The wrappers                                                            *)
(***************************************************************************)
\* lines 121-140
create_fake_distribution(name, version) ==
    [class |-> "FakeDistribution", name |-> name, version |-> version,
     metadata |-> [Name |-> name, Version |-> version]]

\* lines 86-87 and 104-105: the first key, in dict order, whose normal form is
\* normalized_name; 0 when the loop finds none
first_match(FAKE_VERSIONS, normalized_name) ==
    LET hits == {i \in 1..Len(FAKE_VERSIONS) :
                    normalize(FAKE_VERSIONS[i].k) = normalized_name}
    IN  IF hits = {} THEN 0 ELSE CHOOSE i \in hits : \A j \in hits : i <= j

\* calling the function value f; calls lists the function values entered
RECURSIVE call_version(_, _, _)
RECURSIVE call_distribution(_, _, _)

\* patched_version whose except clause returns the default version
patched_version_swallow(heap, FAKE_VERSIONS, original_version, dist_name) ==
    IF DictHas(FAKE_VERSIONS, dist_name)
    THEN [kind |-> "return", val |-> DictGet(FAKE_VERSIONS, dist_name, None),
          exc |-> <<>>, calls |-> <<>>]
    ELSE LET i == first_match(FAKE_VERSIONS, normalize(dist_name))
             r == call_version(heap, original_version, dist_name)
         IN  IF i # 0
             THEN [kind |-> "return", val |-> FAKE_VERSIONS[i].v, exc |-> <<>>,
                   calls |-> <<>>]
             ELSE IF r.kind = "raise"
             THEN [kind |-> "return", val |-> default_version, exc |-> <<>>,
                   calls |-> r.calls]
             ELSE r

\* patched_version without the exact match of lines 81-82
patched_version_no_exact(heap, FAKE_VERSIONS, original_version, dist_name) ==
    LET i == first_match(FAKE_VERSIONS, normalize(dist_name))
    IN  IF i # 0
        THEN [kind |-> "return", val |-> FAKE_VERSIONS[i].v, exc |-> <<>>,
              calls |-> <<>>]
        ELSE call_version(heap, original_version, dist_name)

\* lines 79-95; heap holds the closures, for the call of original_version
patched_version(heap, FAKE_VERSIONS, original_version, dist_name) ==
    IF DictHas(FAKE_VERSIONS, dist_name)
    THEN [kind |-> "return", val |-> DictGet(FAKE_VERSIONS, dist_name, None),
          exc |-> <<>>, calls |-> <<>>]
    ELSE LET normalized_name == normalize(dist_name)
             i == first_match(FAKE_VERSIONS, normalized_name)
         IN  IF i # 0
             THEN [kind |-> "return", val |-> FAKE_VERSIONS[i].v, exc |-> <<>>,
                   calls |-> <<>>]
             \* try: return original_version(dist_name); except Exception: raise
             ELSE call_version(heap, original_version, dist_name)

\* lines 97-109
patched_distribution(heap, FAKE_VERSIONS, original_distribution, dist_name) ==
    IF DictHas(FAKE_VERSIONS, dist_name)
    THEN [kind |-> "return",
          val |-> create_fake_distribution(dist_name,
                                           DictGet(FAKE_VERSIONS, dist_name, None)),
          exc |-> <<>>, calls |-> <<>>]
    ELSE LET normalized_name == normalize(dist_name)
             i == first_match(FAKE_VERSIONS, normalized_name)
         IN  IF i # 0
             THEN [kind |-> "return",
                   val |-> create_fake_distribution(dist_name, FAKE_VERSIONS[i].v),
                   exc |-> <<>>, calls |-> <<>>]
             ELSE call_distribution(heap, original_distribution, dist_name)

call_version(heap, f, dist_name) ==
    LET r == IF f = RealFunction
             THEN registry_version(dist_name)
             ELSE patched_version(heap, heap[f].FAKE_VERSIONS,
                                  heap[f].original_version, dist_name)
    IN  [r EXCEPT !.calls = <<f>> \o @]

call_distribution(heap, f, dist_name) ==
    LET r == IF f = RealFunction
             THEN registry_distribution(dist_name)
             ELSE patched_distribution(heap, heap[f].FAKE_VERSIONS,
                                       heap[f].original_distribution, dist_name)
    IN  [r EXCEPT !.calls = <<f>> \o @]

(***************************************************************************)
(* Inputs                                                                  *)
(***************************************************************************)
a_dash_b == <<"a", "-", "b">>
A_under_b == <<"A", "_", "b">>
EqEq == <<"=", "=">>

\* lines an excludes file is made of
ExcludeLinePool ==
    { PIL \o <<"\n">>,
      sklearn,
      <<" ">> \o a_dash_b \o <<" ", "\n">>,
      <<" ", "#", "x", "\n">>,
      <<"\n">> }

\* lines a requirements file is made of
RequirementLinePool ==
    { pillow \o EqEq \o <<"9", ".", "5">> \o <<"\n">>,
      pillow \o EqEq,
      PIL \o EqEq \o <<"2">>,
      a_dash_b \o EqEq \o <<"3">> \o <<"\n">>,
      <<" ">> \o scikit_learn \o <<" ">> \o EqEq \o <<" ", "1", ".", "2", "\n">>,
      <<"#">> \o PIL \o EqEq \o <<"7">> }

\* the files of at most MaxLines lines over a pool, and the two unreadable ones
Files(pool) ==
    {MissingFile, DeniedFile}
    \cup {ReadableFile(ls) : ls \in UNION {[1..n -> pool] : n \in 0..MaxLines}}

\* an argument left at its default None
NoArg == [state |-> "none", lines |-> <<>>]

\* the argument pairs the host passes to patch_importlib_metadata
InstallArgs ==
    { [excludes_file |-> ReadableFile(<<a_dash_b \o <<"\n">>, A_under_b \o <<"\n">>>>),
       requirements_file |-> ReadableFile(<<a_dash_b \o EqEq \o <<"3">>>>)],
      [excludes_file |-> ReadableFile(<<PIL>>),
       requirements_file |-> ReadableFile(<<pillow \o EqEq \o <<"9", ".", "5">>>>)],
      [excludes_file |-> MissingFile,
       requirements_file |-> ReadableFile(<<scikit_learn \o EqEq \o <<"1", ".", "2">>>>)],
      [excludes_file |-> DeniedFile, requirements_file |-> MissingFile],
      [excludes_file |-> NoArg, requirements_file |-> NoArg] }

\* the names the host looks up
LookupNames ==
    { a_dash_b, A_under_b, <<"A", "-", "B">>, PIL, <<"p", "i", "l">>, sklearn,
      <<"f", "o", "o">>, <<"b", "a", "r">> }

\* what the real registry may hold
Registries ==
    { <<>>,
      <<[k |-> <<"f", "o", "o">>, v |-> <<"2", ".", "0">>],
        [k |-> PIL, v |-> <<"8", ".", "0">>]>> }

(***************************************************************************)
(* Initial states                                                          *)
(***************************************************************************)
\* the process before patch_importlib_metadata is called
Init ==
    /\ metadata_importable \in BOOLEAN
    /\ registry \in Registries
    /\ metadata_version = RealFunction
    /\ metadata_distribution = RealFunction
    /\ closures = <<>>
    /\ installs = 0
    /\ ret = NoCall
    /\ result = NoCall
    /\ load_in = NoCall
    /\ load_out = NoCall

\* a caller about to call load_exclude_packages_and_versions on two files
InitLoad ==
    /\ metadata_importable = TRUE
    /\ registry = <<>>
    /\ metadata_version = RealFunction
    /\ metadata_distribution = RealFunction
    /\ closures = <<>>
    /\ installs = 0
    /\ ret = NoCall
    /\ result = NoCall
    /\ load_in \in [excludes_file : Files(ExcludeLinePool),
                    requirements_file : Files(RequirementLinePool)]
    /\ load_out = NoCall

(***************************************************************************)
(* Actions                                                                 *)
(***************************************************************************)
\* the record of one load_exclude_packages_and_versions call
LoadRecord(excludes_file, requirements_file, order) ==
    [kind |-> "done", order |-> order,
     out |-> load_exclude_packages_and_versions(excludes_file, requirements_file, order)]

\* a direct call of load_exclude_packages_and_versions(excludes_file, requirements_file)
Load ==
    /\ load_in # NoCall
    /\ load_out = NoCall
    /\ \E order \in LoadOrders(load_in.excludes_file) :
          load_out' = LoadRecord(load_in.excludes_file, load_in.requirements_file, order)
    /\ UNCHANGED <<metadata_importable, registry, metadata_version, metadata_distribution,
                   closures, installs, ret, result, load_in>>

\* "if excludes_file and requirements_file" (line 67)
ArgsGiven(args) == args.excludes_file # NoArg /\ args.requirements_file # NoArg

\* patch_importlib_metadata(excludes_file, requirements_file), lines 63-119;
\* order is the iteration order of the set inside the resolver
patch_importlib_metadata(args, order) ==
    LET loaded == IF ArgsGiven(args)
                  THEN load_exclude_packages_and_versions(args.excludes_file,
                                                          args.requirements_file, order)
                  ELSE [kind |-> "return", exc |-> "", val |-> <<>>, warnings |-> <<>>]
    IN  /\ installs' = installs + 1
        /\ IF loaded.kind = "raise"
           \* the exception leaves the function before the try of line 72
           THEN /\ ret' = [kind |-> "raise", exc |-> loaded.exc, val |-> FALSE,
                           args |-> args, order |-> order]
                /\ UNCHANGED <<metadata_version, metadata_distribution, closures>>
           ELSE IF ~metadata_importable
           \* line 73 raises ImportError, caught at line 117
           THEN /\ ret' = [kind |-> "return", exc |-> "", val |-> FALSE,
                           args |-> args, order |-> order]
                /\ UNCHANGED <<metadata_version, metadata_distribution, closures>>
           ELSE /\ closures' = Append(closures,
                                      [FAKE_VERSIONS |-> loaded.val,
                                       original_version |-> metadata_version,
                                       original_distribution |-> metadata_distribution])
                /\ metadata_version' = Len(closures) + 1
                /\ metadata_distribution' = Len(closures) + 1
                /\ ret' = [kind |-> "return", exc |-> "", val |-> TRUE,
                           args |-> args, order |-> order]

\* the host calls patch_importlib_metadata
Install ==
    /\ installs < MaxInstalls
    /\ \E args \in InstallArgs :
          \E order \in (IF ArgsGiven(args) THEN LoadOrders(args.excludes_file) ELSE {<<>>}) :
             patch_importlib_metadata(args, order)
    /\ UNCHANGED <<metadata_importable, registry, result, load_in, load_out>>

\* the host calls metadata.version(dist_name)
LookupVersion ==
    /\ metadata_importable
    /\ \E dist_name \in LookupNames :
          result' = [kind |-> "version", f |-> metadata_version, dist_name |-> dist_name,
                     out |-> call_version(closures, metadata_version, dist_name)]
    /\ UNCHANGED <<metadata_importable, registry, metadata_version, metadata_distribution,
                   closures, installs, ret, load_in, load_out>>

\* the host calls metadata.distribution(dist_name)
LookupDistribution ==
    /\ metadata_importable
    /\ \E dist_name \in LookupNames :
          result' = [kind |-> "distribution", f |-> metadata_distribution,
                     dist_name |-> dist_name,
                     out |-> call_distribution(closures, metadata_distribution, dist_name)]
    /\ UNCHANGED <<metadata_importable, registry, metadata_version, metadata_distribution,
                   closures, installs, ret, load_in, load_out>>

Next == Install \/ LookupVersion \/ LookupDistribution

\* the interceptor: installs and lookups
Spec == Init /\ [][Next]_vars

NextLoad == Load

\* the resolver alone, over all files of the pools
SpecLoad == InitLoad /\ [][NextLoad]_vars

(***************************************************************************)
(* The resolver's inputs as the specification describes them               *)
(***************************************************************************)
IsBlank(line) == \A i \in 1..Len(line) : line[i] \in Whitespace

Ink(line) == {i \in 1..Len(line) : line[i] \notin Whitespace}

FirstInk(line) == CHOOSE i \in Ink(line) : \A j \in Ink(line) : i <= j

LastInk(line) == CHOOSE i \in Ink(line) : \A j \in Ink(line) : i >= j

\* the line without its surrounding whitespace
Trimmed(line) == IF IsBlank(line) THEN <<>> ELSE SubSeq(line, FirstInk(line), LastInk(line))

\* a line whose first non-space character is #
IsComment(line) == ~IsBlank(line) /\ line[FirstInk(line)] = "#"

\* the content of a source; an unreadable source has none
SourceLines(file) == IF file.state = "ok" THEN file.lines ELSE <<>>

\* the Exclusion Set of an excludes source
ExclusionSetOf(file) ==
    {Trimmed(SourceLines(file)[i]) : i \in {j \in 1..Len(SourceLines(file)) :
        ~IsBlank(SourceLines(file)[j]) /\ ~IsComment(SourceLines(file)[j])}}

\* positions of == in a line
EqPositions(line) == {i \in 1..(Len(line) - 1) : line[i] = "=" /\ line[i + 1] = "="}

FirstEq(line) == CHOOSE i \in EqPositions(line) : \A j \in EqPositions(line) : i <= j

\* a requirements line of the form name==version
IsPin(line) == ~IsBlank(line) /\ ~IsComment(line) /\ EqPositions(Trimmed(line)) # {}

PinName(line) ==
    LET t == Trimmed(line) IN Trimmed(SubSeq(t, 1, FirstEq(t) - 1))

PinVersion(line) ==
    LET t == Trimmed(line) IN Trimmed(SubSeq(t, FirstEq(t) + 2, Len(t)))

\* the name==version lines of a requirements source
PinsOf(file) ==
    LET lines == SourceLines(file)
    IN  {[line |-> i, name |-> PinName(lines[i]), version |-> PinVersion(lines[i])] :
            i \in {j \in 1..Len(lines) : IsPin(lines[j])}}

\* the Version Table made of these pins has an entry for name
VersionTableHas(pins, name) == \E e \in pins : e.name = name

\* that entry: the last line for name
VersionTableEntry(pins, name) ==
    LET last == CHOOSE e \in pins :
                    e.name = name /\ \A o \in pins : o.name = name => o.line <= e.line
    IN  last.version

\* a direct call of the resolver has returned a map
LoadReturned == load_out # NoCall /\ load_out.out.kind = "return"

\* the value the map m stores for key n
Stored(m, n) == LET i == CHOOSE j \in 1..Len(m) : m[j].k = n IN m[i].v

\* the known import-name / distribution-name pairs
AliasPairs == {<<PIL, pillow>>, <<sklearn, scikit_learn>>}

\* the version the resolution order gives n: own entry, else alias entry, else default
ResolutionOrder(pins, n) ==
    IF VersionTableHas(pins, n) THEN VersionTableEntry(pins, n)
    ELSE IF \E p \in AliasPairs : p[1] = n /\ VersionTableHas(pins, p[2])
    THEN LET p == CHOOSE q \in AliasPairs : q[1] = n IN VersionTableEntry(pins, p[2])
    ELSE default_version

(***************************************************************************)
(* Claims about the resolver, checked under SpecLoad                       *)
(***************************************************************************)
\* C4: every name of the Exclusion Set is stored with the version the
\* resolution order gives it: its own Version Table entry, else the entry of
\* its distribution name when it is a known alias, else the default 1.0.0.
C4_ResolutionOrder ==
    LoadReturned =>
        LET pins == PinsOf(load_in.requirements_file)
        IN  \A n \in ExclusionSetOf(load_in.excludes_file) :
                /\ n \in Keys(load_out.out.val)
                /\ Stored(load_out.out.val, n) = ResolutionOrder(pins, n)

C6_ExcludedHaveVersions ==
    LoadReturned =>
        \A n \in ExclusionSetOf(load_in.excludes_file) :
            /\ n \in Keys(load_out.out.val)
            /\ Stored(load_out.out.val, n) # <<>>
            /\ Stored(load_out.out.val, n) # None

\* a source as the resolver must treat it: an unreadable one as an empty one
AsIfEmpty(file) == IF file.state = "ok" THEN file ELSE ReadableFile(<<>>)

\* C7: with an unreadable source the resolver does not raise; it warns and
\* returns the map it returns when that source is empty.
C7_UnreadableIsEmpty ==
    ( /\ load_out # NoCall
      /\ \/ load_in.excludes_file.state # "ok"
         \/ load_in.requirements_file.state # "ok" )
    => /\ load_out.out.kind = "return"
       /\ load_out.out.warnings # <<>>
       /\ load_out.out.val =
             load_exclude_packages_and_versions(AsIfEmpty(load_in.excludes_file),
                                                AsIfEmpty(load_in.requirements_file),
                                                load_out.order).val

(***************************************************************************)
(* Claims about the interceptor, checked under Spec                        *)
(***************************************************************************)
\* the last lookup went through a wrapper
Wrapped == result # NoCall /\ result.f # RealFunction

\* the Fake Version Map the wrapper of the last lookup closes over
WrapperMap == closures[result.f].FAKE_VERSIONS

\* one character of a name, lower-cased and with the hyphen as an underscore
Folded(c) ==
    IF c = "-" THEN "_" ELSE IF c \in DOMAIN UpperToLower THEN UpperToLower[c] ELSE c

\* lowercasing r and k and replacing every hyphen by an underscore gives the same string
SameNormalForm(r, k) ==
    Len(r) = Len(k) /\ \A i \in 1..Len(r) : Folded(r[i]) = Folded(k[i])

\* what a lookup gave its caller: the version string returned (the version
\* field of the record for a distribution lookup), or the exception raised
Answer(kind, out) ==
    IF out.kind = "raise" THEN <<"raise", out.exc>>
    ELSE IF kind = "version" THEN <<"return", out.val>>
    ELSE <<"return", out.val.version>>

\* C1: the original functions captured by the most recently installed wrappers
\* are the functions of the real registry, never a wrapper of an earlier call,
\* so a lookup that falls through enters the real registry right after the
\* wrapper.
C1_OriginalIsRealRegistry ==
    /\ metadata_version # RealFunction =>
          closures[metadata_version].original_version = RealFunction
    /\ metadata_distribution # RealFunction =>
          closures[metadata_distribution].original_distribution = RealFunction
    /\ (Wrapped /\ RealFunction \in {result.out.calls[i] : i \in 1..Len(result.out.calls)})
          => result.out.calls = <<result.f, RealFunction>>

\* C2 as stated: a version lookup of a name that is not a key of the wrapper's
\* map and that the registry does not know raises what the registry raises.
C2_NonKeyFailsAsRegistry ==
    ( /\ Wrapped
      /\ result.kind = "version"
      /\ result.dist_name \notin Keys(WrapperMap)
      /\ ~DictHas(registry, result.dist_name) )
    => /\ result.out.kind = "raise"
       /\ result.out.exc = PackageNotFoundError(result.dist_name)

\* the name matches a key of the map of some installed wrapper, exactly or by
\* normal form
MatchesInstalledKey(name) ==
    \E c \in 1..Len(closures) : \E k \in Keys(closures[c].FAKE_VERSIONS) :
        SameNormalForm(name, k)

\* C2 amended: a version lookup of a name that matches no key of the map of
\* any installed wrapper, neither exactly nor by normal form, and that the
\* registry does not know, raises exactly what the registry raises for it.
C2_UnmatchedFailsAsRegistry ==
    ( /\ Wrapped
      /\ result.kind = "version"
      /\ ~MatchesInstalledKey(result.dist_name)
      /\ ~DictHas(registry, result.dist_name) )
    => /\ result.out.kind = "raise"
       /\ result.out.exc = PackageNotFoundError(result.dist_name)

\* C2 witness: a wrapped version lookup of an unmatched, unknown name has raised.
C2_Witness ==
    /\ Wrapped
    /\ result.kind = "version"
    /\ ~MatchesInstalledKey(result.dist_name)
    /\ ~DictHas(registry, result.dist_name)
    /\ result.out.kind = "raise"

\* C3: a version lookup of a key of the wrapper's map returns the version
\* stored for that key, and no other function is called.
C3_KeyReturnsStoredVersion ==
    ( /\ Wrapped
      /\ result.kind = "version"
      /\ result.dist_name \in Keys(WrapperMap) )
    => /\ result.out.kind = "return"
       /\ result.out.val = Stored(WrapperMap, result.dist_name)
       /\ result.out.calls = <<result.f>>

\* C3 witness: a wrapped version lookup of a key of a map with another key of
\* the same normal form.
C3_Witness ==
    /\ Wrapped
    /\ result.kind = "version"
    /\ result.dist_name \in Keys(WrapperMap)
    /\ \E k \in Keys(WrapperMap) : k # result.dist_name /\ SameNormalForm(k, result.dist_name)
    /\ result.out.kind = "return"

\* C9: a version or distribution lookup of a name with the normal form of a
\* key returns a synthetic result with the version of a key of that normal
\* form, and no other function is called.
C9_NormalFormMatches ==
    ( /\ Wrapped
      /\ \E k \in Keys(WrapperMap) : SameNormalForm(result.dist_name, k) )
    => /\ result.out.kind = "return"
       /\ \E k \in Keys(WrapperMap) :
             /\ SameNormalForm(result.dist_name, k)
             /\ Answer(result.kind, result.out) = <<"return", Stored(WrapperMap, k)>>
       /\ result.kind = "distribution" => result.out.val.class = "FakeDistribution"
       /\ result.out.calls = <<result.f>>

\* C9 witness: the name is not a key, differs from a key in case and in
\* separator, and the lookup returned.
C9_Witness ==
    /\ Wrapped
    /\ result.dist_name \notin Keys(WrapperMap)
    /\ \E k \in Keys(WrapperMap) :
          /\ SameNormalForm(result.dist_name, k)
          /\ \E i \in 1..Len(k) : k[i] = "_" /\ result.dist_name[i] = "-"
          /\ \E i \in 1..Len(k) : k[i] # result.dist_name[i] /\ k[i] \notin {"_", "-"}
    /\ result.out.kind = "return"

\* the last lookup, made again with the wrapper's map built under another
\* iteration order of the Exclusion Set
AnswerUnder(order) ==
    LET again == load_exclude_packages_and_versions(ret.args.excludes_file,
                                                    ret.args.requirements_file, order)
        heap == [closures EXCEPT ![result.f].FAKE_VERSIONS = again.val]
    IN  Answer(result.kind,
               IF result.kind = "version"
               THEN call_version(heap, result.f, result.dist_name)
               ELSE call_distribution(heap, result.f, result.dist_name))

\* C10: the answer of a lookup is the same under every iteration order of the
\* Exclusion Set the wrapper's map can have been built under.
C10_OrderIndependent ==
    ( /\ Wrapped
      /\ result.f = Len(closures)
      /\ ret.kind = "return" /\ ret.val = TRUE
      /\ ArgsGiven(ret.args) )
    => \A order \in LoadOrders(ret.args.excludes_file) :
          AnswerUnder(order) = Answer(result.kind, result.out)

\* an install step
InstallStep == installs' = installs + 1

\* C8: without the registry facility an install returns false and leaves both
\* entry points as they were; with it, it returns true and replaces both.
C8_InstallFrame ==
    [][InstallStep =>
          IF ~metadata_importable
          THEN /\ ret'.kind = "return" /\ ret'.val = FALSE
               /\ UNCHANGED <<metadata_version, metadata_distribution>>
          ELSE /\ ret'.kind = "return" /\ ret'.val = TRUE
               /\ metadata_version' # metadata_version
               /\ metadata_distribution' # metadata_distribution]_vars

====
